---- MODULE Spec2Model ----
(***************************************************************************)
(* Monte Carlo blackjack EV solver (LATEST20250108.py): the shoe, the hand *)
(* valuation, the dealer playout, the per-action trials of monte_carlo_ev, *)
(* and the action list of get_player_action.                               *)
(*                                                                         *)
(* Lists of card values are sequences; random.choice(list) is a            *)
(* nondeterministic choice of one element of the list; list.remove(v)      *)
(* removes the first occurrence of v.  A mean ev / n is kept as the pair   *)
(* <<ev, n>> (numerator, denominator), never rounded.                      *)
(***************************************************************************)
EXTENDS Integers, Sequences, FiniteSets, TLC

(***************************************************************************)
(* Program constants.                                                      *)
(***************************************************************************)
BLACKJACK == 21

DEALER_STAND == 17

\* simulations=SIMULATIONS is the default trial count of monte_carlo_ev.
SIMULATIONS == 10000

\* RTP = 0.995, kept as the fraction RTP_NUM / RTP_DEN.
RTP_NUM == 995

RTP_DEN == 1000

\* The hit threshold of play_out_hand ("Stop hitting at 17+").
PLAYER_STAND == 17

ALL_RANKS == <<"2", "3", "4", "5", "6", "7", "8", "9", "T", "J", "Q", "K", "A">>

RankSet == {ALL_RANKS[x] : x \in 1..Len(ALL_RANKS)}

RANK_TO_VALUE ==
  [r \in RankSet |->
     CASE r = "2" -> 2 [] r = "3" -> 3 [] r = "4" -> 4 [] r = "5" -> 5
       [] r = "6" -> 6 [] r = "7" -> 7 [] r = "8" -> 8 [] r = "9" -> 9
       [] r = "T" -> 10 [] r = "J" -> 10 [] r = "Q" -> 10 [] r = "K" -> 10
       [] r = "A" -> 11]

\* The weights are the floats 1.0, 2.0, 0.0, -1.0, -2.0: whole numbers.
COUNTING_SYSTEM ==
  [r \in RankSet |->
     CASE r \in {"2", "3", "7"} -> 1
       [] r \in {"4", "5", "6"} -> 2
       [] r \in {"8", "A"} -> 0
       [] r = "9" -> -1
       [] r \in {"T", "J", "Q", "K"} -> -2]

(***************************************************************************)
(* Bounds of the model.                                                    *)
(***************************************************************************)
\* Decks of the shoe (the source plays 6; the model explores fewer).
NUM_DECKS == 1

\* Longest hand handed to hand_value / is_soft_hand as an input.
MaxHand == 4

\* Most cards in a shoe handed to an estimate.
MaxShoe == 4

\* Ranks the session's user types, and the ranks input shoes hold.
InputRanks == {"5", "6", "T", "K", "A"}

(***************************************************************************)
(* List helpers (Python list semantics).                                   *)
(***************************************************************************)
RECURSIVE SumSeq(_)
SumSeq(s) == IF s = <<>> THEN 0 ELSE Head(s) + SumSeq(Tail(s))

\* list.count(v)
Count(s, v) == Cardinality({x \in 1..Len(s) : s[x] = v})

\* v in list
Contains(s, v) == \E x \in 1..Len(s) : s[x] = v

\* list.remove(v): drops the first occurrence (the callers test membership first).
ListRemove(s, v) ==
  LET first == CHOOSE x \in 1..Len(s) : s[x] = v /\ \A y \in 1..(x - 1) : s[y] # v
  IN  SubSeq(s, 1, first - 1) \o SubSeq(s, first + 1, Len(s))

\* [val] * count
RECURSIVE Repeat(_, _)
Repeat(v, k) == IF k <= 0 THEN <<>> ELSE <<v>> \o Repeat(v, k - 1)

\* The values random.choice(list) can return.
Choices(s) == {s[x] : x \in 1..Len(s)}

Range(s) == {s[x] : x \in 1..Len(s)}

(***************************************************************************)
(* Shoe.                                                                   *)
(***************************************************************************)
initialize_shoe_counts(num_decks) == [r \in RankSet |-> 4 * num_decks]

RECURSIVE BuildFrom(_, _)
BuildFrom(counts, x) ==
  IF x > Len(ALL_RANKS) THEN <<>>
  ELSE Repeat(RANK_TO_VALUE[ALL_RANKS[x]], counts[ALL_RANKS[x]]) \o BuildFrom(counts, x + 1)

build_shoe_list(counts) == BuildFrom(counts, 1)

(***************************************************************************)
(* Hand valuation.                                                         *)
(***************************************************************************)
\* The loop shared by hand_value and is_soft_hand: <<total, aces>> at its exit.
RECURSIVE ReduceAces(_, _)
ReduceAces(total, aces) ==
  IF total > BLACKJACK /\ aces > 0 THEN ReduceAces(total - 10, aces - 1)
  ELSE <<total, aces>>

hand_value_NoReduce(cards) == SumSeq(cards)

hand_value(cards) == ReduceAces(SumSeq(cards), Count(cards, 11))[1]

is_soft_hand_AnyAce(cards) == Count(cards, 11) > 0

is_soft_hand(cards) == ReduceAces(SumSeq(cards), Count(cards, 11))[2] > 0

compare_final_totals(player_total, dealer_total) ==
  IF player_total > 21 THEN -1
  ELSE IF dealer_total > 21 THEN 1
  ELSE IF player_total > dealer_total THEN 1
  ELSE IF player_total < dealer_total THEN -1
  ELSE 0

StandLike_SoftBelow16(player_t, d_total, is_soft) ==
  IF d_total > BLACKJACK THEN 1
  ELSE IF is_soft
       THEN LET soft_total == IF player_t <= 15 THEN player_t + 10 ELSE player_t
                best == IF soft_total > player_t THEN soft_total ELSE player_t
            IN  IF best > d_total THEN 1 ELSE IF best < d_total THEN -1 ELSE 0
       ELSE IF player_t > d_total THEN 1 ELSE IF player_t < d_total THEN -1 ELSE 0

\* One dealer total of the loop body of process_results_for_stand_like.
StandLike(player_t, d_total, is_soft) ==
  IF d_total > BLACKJACK THEN 1
  ELSE IF is_soft
       THEN LET soft_total == IF player_t <= 11 THEN player_t + 10 ELSE player_t
                best == IF soft_total > player_t THEN soft_total ELSE player_t
            IN  IF best > d_total THEN 1 ELSE IF best < d_total THEN -1 ELSE 0
       ELSE IF player_t > d_total THEN 1 ELSE IF player_t < d_total THEN -1 ELSE 0

RECURSIVE StandLoop(_, _, _)
StandLoop(player_t, dealer_totals_list, is_soft) ==
  IF dealer_totals_list = <<>> THEN 0
  ELSE StandLike(player_t, Head(dealer_totals_list), is_soft)
         + StandLoop(player_t, Tail(dealer_totals_list), is_soft)

process_results_for_stand_like(player_t, dealer_totals_list, is_soft) ==
  IF player_t > BLACKJACK THEN -1 * Len(dealer_totals_list)
  ELSE StandLoop(player_t, dealer_totals_list, is_soft)

\* "for val in player_cards: if val in local_shoe: local_shoe.remove(val)"
RECURSIVE RemoveEach(_, _)
RemoveEach(list, cards) ==
  IF cards = <<>> THEN list
  ELSE RemoveEach(IF Contains(list, Head(cards)) THEN ListRemove(list, Head(cards)) ELSE list,
                  Tail(cards))

\* "if dealer_card_val in local_shoe: local_shoe.remove(dealer_card_val)"
RemoveIfPresent(list, v) == IF Contains(list, v) THEN ListRemove(list, v) ELSE list

(***************************************************************************)
(* State.                                                                  *)
(***************************************************************************)
VARIABLES
  shoe_counts,           \* the caller's shoe: rank -> remaining count
  running_count,         \* the global running count
  last_rank,             \* the rank argument of the last remove_card_from_shoe
  err,                   \* the error the last operation raised, or "none"
  player_cards,          \* monte_carlo_ev / get_player_action argument
  dealer_card_val,       \* monte_carlo_ev / get_player_action argument
  action,                \* monte_carlo_ev argument
  simulations,           \* monte_carlo_ev argument
  mpc,                   \* position inside monte_carlo_ev
  player_total, is_soft_player, chunk_size,
  ev,                    \* <<numerator, denominator>>
  checkpoint_means,      \* list of <<numerator, denominator>>
  i, n,                  \* chunk index, trials done in the chunk
  ev_chunk, split_ev_accumulator,
  local_shoe,            \* the trial's pool (shoe_list for Stand)
  tmp_cards,             \* the player's hand of the trial (sub_hand_1/2 for Split)
  sub,                   \* the Split sub-hand being played: 1 or 2
  result_1, result_2, p_total, d_total,
  dealer_totals,         \* final_totals of simulate_dealer_hands
  dealer_cards,          \* simulate_dealer_hand_once: the dealer's hand
  dealer_shoe,           \* simulate_dealer_hand_once: its local_shoe
  final_ev,              \* <<numerator, denominator>> returned
  is_first_turn, is_split_hand,   \* get_player_action arguments
  actions, evs, best_action, second_best_action, gpc,
  backup_shoe_counts,    \* main: the snapshot taken at the top of the loop
  mainpc,                \* position inside main
  user_input,            \* main: what was typed at the last prompt
  run,                   \* which of two successive estimates is running
  stream,                \* the random choices of the first estimate, in order
  taken,                 \* choices of the stream consumed by the second estimate
  first                  \* what the first estimate handed back

shoeVars == <<shoe_counts, running_count, last_rank>>

inVars == <<player_cards, dealer_card_val, action, simulations>>

estVars == <<player_total, is_soft_player, chunk_size, ev, checkpoint_means, i, n,
             ev_chunk, split_ev_accumulator, final_ev>>

trialVars == <<local_shoe, tmp_cards, sub, result_1, result_2, p_total, d_total, dealer_totals>>

dealerVars == <<dealer_cards, dealer_shoe>>

selVars == <<is_first_turn, is_split_hand, actions, evs, best_action, second_best_action, gpc>>

sessVars == <<backup_shoe_counts, mainpc, user_input>>

replayVars == <<run, stream, taken, first>>

vars == <<shoeVars, err, inVars, mpc, estVars, trialVars, dealerVars, selVars, sessVars,
          replayVars>>

KnownActions == {"Stand", "Hit", "Double Down", "Split"}

(***************************************************************************)
(* Idle values of the parts a specification does not use.                  *)
(***************************************************************************)
ShoeIdle ==
  /\ running_count = 0
  /\ last_rank = "none"

EstIdle ==
  /\ mpc = "call"
  /\ player_total = 0 /\ is_soft_player = FALSE /\ chunk_size = 0
  /\ ev = <<0, 1>> /\ checkpoint_means = <<>> /\ i = 0 /\ n = 0
  /\ ev_chunk = 0 /\ split_ev_accumulator = 0 /\ final_ev = <<0, 1>>
  /\ local_shoe = <<>> /\ tmp_cards = <<>> /\ sub = 0
  /\ result_1 = 0 /\ result_2 = 0 /\ p_total = 0 /\ d_total = 0
  /\ dealer_totals = <<>> /\ dealer_cards = <<>> /\ dealer_shoe = <<>>

SelIdle ==
  /\ is_first_turn = TRUE /\ is_split_hand = FALSE
  /\ actions = <<>> /\ evs = <<>> /\ best_action = "none"
  /\ second_best_action = "none" /\ gpc = "idle"

SessIdle ==
  /\ backup_shoe_counts = shoe_counts
  /\ mainpc = "idle"
  /\ user_input = <<>>

ReplayIdle ==
  /\ run = 1 /\ stream = <<>> /\ taken = 0 /\ first = <<>>

(***************************************************************************)
(* remove_card_from_shoe.                                                  *)
(***************************************************************************)
Decrement(counts, rank) == [counts EXCEPT ![rank] = @ - 1]

RemoveGuard_Off(counts, rank) == TRUE

RemoveGuard(counts, rank) == counts[rank] > 0

remove_card_from_shoe(rank) ==
  /\ last_rank' = rank
  /\ IF RemoveGuard(shoe_counts, rank)
     THEN /\ shoe_counts' = Decrement(shoe_counts, rank)
          /\ running_count' = running_count + COUNTING_SYSTEM[rank]
          /\ err' = "none"
     ELSE /\ err' = "ValueError"
          /\ UNCHANGED <<shoe_counts, running_count>>

RemoveCard ==
  /\ \E rank \in InputRanks : remove_card_from_shoe(rank)
  /\ UNCHANGED <<inVars, mpc, estVars, trialVars, dealerVars, selVars, sessVars, replayVars>>

InitShoe ==
  /\ shoe_counts = initialize_shoe_counts(NUM_DECKS)
  /\ ShoeIdle /\ err = "none"
  /\ player_cards = <<>> /\ dealer_card_val = 0 /\ action = "none" /\ simulations = 0
  /\ EstIdle /\ SelIdle /\ SessIdle /\ ReplayIdle

NextShoe == RemoveCard

SpecShoe == InitShoe /\ [][NextShoe]_vars

\* C1: a call remove_card_from_shoe(rank) with count c >= 1 leaves c - 1 and
\* every other rank's count as it was; with count 0 it raises ValueError and
\* every rank count is exactly as before the call.
C1_RemoveCard ==
  [][LET rank == last_rank'
     IN  IF shoe_counts[rank] >= 1
         THEN /\ err' = "none"
              /\ shoe_counts'[rank] = shoe_counts[rank] - 1
              /\ \A r \in RankSet \ {rank} : shoe_counts'[r] = shoe_counts[r]
         ELSE /\ err' = "ValueError"
              /\ \A r \in RankSet : shoe_counts'[r] = shoe_counts[r]]_vars

\* C1 witness: a removal failed on an exhausted rank while other ranks are
\* partly removed and others still full.
C1_Witness ==
  /\ err = "ValueError"
  /\ shoe_counts[last_rank] = 0
  /\ \E r \in RankSet : 0 < shoe_counts[r] /\ shoe_counts[r] < 4 * NUM_DECKS

(***************************************************************************)
(* monte_carlo_ev: entry.                                                  *)
(***************************************************************************)
\* Lines 217-225, and lines 348-349 of the Split branch.
McEnter_KeepEv ==
  /\ mpc = "call"
  /\ player_total' = hand_value(player_cards)
  /\ is_soft_player' = is_soft_hand(player_cards)
  /\ checkpoint_means' = <<>>
  /\ chunk_size' = simulations \div 10
  /\ i' = 0
  /\ split_ev_accumulator' = 0
  /\ mpc' = IF action \in KnownActions THEN "chunk" ELSE "scale"
  /\ UNCHANGED <<shoeVars, err, inVars, ev, n, ev_chunk, final_ev, trialVars, dealerVars,
                 selVars, sessVars, replayVars>>

McEnter ==
  /\ mpc = "call"
  /\ player_total' = hand_value(player_cards)
  /\ is_soft_player' = is_soft_hand(player_cards)
  /\ ev' = <<0, 1>>
  /\ checkpoint_means' = <<>>
  /\ chunk_size' = simulations \div 10
  /\ i' = 0
  /\ split_ev_accumulator' = 0
  /\ mpc' = IF action \in KnownActions THEN "chunk" ELSE "scale"
  /\ UNCHANGED <<shoeVars, err, inVars, n, ev_chunk, final_ev, trialVars, dealerVars,
                 selVars, sessVars, replayVars>>

\* Hands of 1..k cards of values 2..11 (11 is an Ace).
CardValues == 2..11

HandsUpTo(k) == UNION {[1..len -> CardValues] : len \in 1..k}

InitHand ==
  /\ player_cards \in HandsUpTo(MaxHand)
  /\ dealer_card_val = 10 /\ action = "Stand" /\ simulations = SIMULATIONS
  /\ shoe_counts = initialize_shoe_counts(NUM_DECKS)
  /\ ShoeIdle /\ err = "none" /\ EstIdle /\ SelIdle /\ SessIdle /\ ReplayIdle

NextHand == McEnter

SpecHand == InitHand /\ [][NextHand]_vars

\* The totals the hand can take: k of its Aces counted as 1, the rest as 11.
AceTotals(cards) == {SumSeq(cards) - 10 * k : k \in 0..Count(cards, 11)}

HardSum(cards) == SumSeq(cards) - 10 * Count(cards, 11)

\* C2: hand_value returns the largest total <= 21 that some assignment of 1 or
\* 11 to the Aces produces, and the all-Aces-as-1 sum when there is none.
C2_BestTotal ==
  mpc # "call" =>
    LET ok == {t \in AceTotals(player_cards) : t <= 21}
    IN  IF ok # {}
        THEN player_total \in ok /\ \A t \in ok : t <= player_total
        ELSE player_total = HardSum(player_cards)

\* C2 witness: a hand valued with two Aces reduced (e.g. A, A, T = 12).
C2_Witness ==
  /\ mpc # "call"
  /\ Count(player_cards, 11) >= 2
  /\ SumSeq(player_cards) > 31
  /\ player_total <= 21

\* C3: is_soft_hand is true exactly when an Ace is still counted as 11 in the
\* total hand_value returns, i.e. the hand holds an Ace and its hard sum + 10
\* is <= 21; Ace + ten-value is a soft 21, and no total above 21 is soft.
C3_Soft ==
  mpc # "call" =>
    /\ is_soft_player <=> (player_total - HardSum(player_cards) >= 10)
    /\ is_soft_player <=> (Count(player_cards, 11) >= 1 /\ HardSum(player_cards) + 10 <= 21)
    /\ player_total > 21 => ~is_soft_player
    /\ player_cards \in {<<11, 10>>, <<10, 11>>} => (player_total = 21 /\ is_soft_player)

\* C3 witness: the two-card hand Ace + Ten is valued 21 and flagged soft.
C3_Witness ==
  /\ mpc # "call"
  /\ player_cards = <<11, 10>>
  /\ player_total = 21
  /\ is_soft_player

(***************************************************************************)
(* simulate_dealer_hand_once(dealer_card_val, shoe_list).  The list handed *)
(* to it is local_shoe in every caller (shoe_list of simulate_dealer_hands *)
(* for Stand, the trial's pool or a copy of it otherwise).                 *)
(***************************************************************************)
\* Lines 118-122: the private copy, the upcard removed from it once.
DealerEntry_NoCopy(shoe_list, upcard) ==
  IF dealer_cards = <<>> THEN RemoveIfPresent(shoe_list, upcard) ELSE dealer_shoe

DealerEntry(shoe_list, upcard) == RemoveIfPresent(shoe_list, upcard)

\* Line 126: the dealer draws.
DealerDraws_Below16(cards, shoe) == hand_value(cards) < DEALER_STAND - 1 /\ shoe # <<>>

DealerDraws_Below18(cards, shoe) == hand_value(cards) < DEALER_STAND + 1 /\ shoe # <<>>

DealerDraws(cards, shoe) == hand_value(cards) < DEALER_STAND /\ shoe # <<>>

\* Line 128: the drawn card leaves the private copy.
DealerTake_Keep(shoe, draw_val) == shoe

DealerTake(shoe, draw_val) == ListRemove(shoe, draw_val)

\* The call: Stand calls it from simulate_dealer_hands (line 179) while fewer
\* than chunk_size totals are collected; Hit, Double Down and Split call it
\* once the player's hand is played (lines 287, 330, 380, 396).
DealerCall ==
  /\ \/ mpc = "sims" /\ Len(dealer_totals) < chunk_size /\ UNCHANGED p_total
     \/ mpc = "played" /\ p_total' = hand_value(tmp_cards)
  /\ dealer_shoe' = DealerEntry(local_shoe, dealer_card_val)
  /\ dealer_cards' = <<dealer_card_val>>
  /\ mpc' = "dealer"
  /\ UNCHANGED <<shoeVars, err, inVars, estVars, local_shoe, tmp_cards, sub, result_1,
                 result_2, d_total, dealer_totals, selVars, sessVars, replayVars>>

\* Lines 127-129.
DealerDraw ==
  /\ mpc = "dealer"
  /\ DealerDraws(dealer_cards, dealer_shoe)
  /\ \E draw_val \in Choices(dealer_shoe) :
       /\ dealer_shoe' = DealerTake(dealer_shoe, draw_val)
       /\ dealer_cards' = Append(dealer_cards, draw_val)
  /\ UNCHANGED <<shoeVars, err, inVars, mpc, estVars, trialVars, selVars, sessVars>>

\* Lines 130-132: break, return hand_value(dealer_cards).
DealerReturn ==
  /\ mpc = "dealer"
  /\ ~DealerDraws(dealer_cards, dealer_shoe)
  /\ IF action = "Stand"
     THEN /\ dealer_totals' = Append(dealer_totals, hand_value(dealer_cards))
          /\ mpc' = "sims"
          /\ UNCHANGED d_total
     ELSE /\ d_total' = hand_value(dealer_cards)
          /\ mpc' = "resolve"
          /\ UNCHANGED dealer_totals
  /\ UNCHANGED <<shoeVars, err, inVars, estVars, local_shoe, tmp_cards, sub, result_1,
                 result_2, p_total, dealerVars, selVars, sessVars, replayVars>>

(***************************************************************************)
(* monte_carlo_ev: the chunk loops.                                        *)
(***************************************************************************)
\* Stand, lines 253-254, and line 175 of simulate_dealer_hands.
StandChunk ==
  /\ mpc = "chunk" /\ action = "Stand" /\ i < 10
  /\ local_shoe' = build_shoe_list(shoe_counts)
  /\ dealer_totals' = <<>>
  /\ mpc' = "sims"
  /\ UNCHANGED <<shoeVars, err, inVars, estVars, tmp_cards, sub, result_1, result_2,
                 p_total, d_total, dealerVars, selVars, sessVars, replayVars>>

\* "checkpoint_means.append(ev / ((i + 1) * chunk_size))": raises
\* ZeroDivisionError when chunk_size is 0.
Checkpoint_NoZeroTest(new_ev) ==
  /\ checkpoint_means' = Append(checkpoint_means, <<new_ev, (i + 1) * chunk_size>>)
  /\ i' = i + 1
  /\ mpc' = "chunk"
  /\ UNCHANGED err

Checkpoint_ChunkOnly(new_ev) ==
  IF (i + 1) * chunk_size = 0
  THEN /\ err' = "ZeroDivisionError"
       /\ mpc' = "raised"
       /\ UNCHANGED <<checkpoint_means, i>>
  ELSE /\ checkpoint_means' = Append(checkpoint_means, <<new_ev, chunk_size>>)
       /\ i' = i + 1
       /\ mpc' = "chunk"
       /\ UNCHANGED err

Checkpoint(new_ev) ==
  IF (i + 1) * chunk_size = 0
  THEN /\ err' = "ZeroDivisionError"
       /\ mpc' = "raised"
       /\ UNCHANGED <<checkpoint_means, i>>
  ELSE /\ checkpoint_means' = Append(checkpoint_means, <<new_ev, (i + 1) * chunk_size>>)
       /\ i' = i + 1
       /\ mpc' = "chunk"
       /\ UNCHANGED err

\* Stand, lines 255-257.
StandChunkEnd ==
  /\ mpc = "sims" /\ Len(dealer_totals) >= chunk_size
  /\ ev_chunk' = process_results_for_stand_like(player_total, dealer_totals, is_soft_player)
  /\ ev' = <<ev[1] + ev_chunk', 1>>
  /\ Checkpoint(ev[1] + ev_chunk')
  /\ UNCHANGED <<shoeVars, inVars, player_total, is_soft_player, chunk_size, n,
                 split_ev_accumulator, final_ev, trialVars, dealerVars,
                 selVars, sessVars, replayVars>>

\* Hit, Double Down, Split: "for i in range(10): ev_chunk = 0".
TrialChunk ==
  /\ mpc = "chunk" /\ action \in {"Hit", "Double Down", "Split"} /\ i < 10
  /\ ev_chunk' = 0
  /\ n' = 0
  /\ mpc' = "trial"
  /\ UNCHANGED <<shoeVars, err, inVars, player_total, is_soft_player, chunk_size, ev,
                 checkpoint_means, i, split_ev_accumulator, final_ev, trialVars,
                 dealerVars, selVars, sessVars, replayVars>>

\* Hit and Double Down, lines 298-299 and 341-342.
TrialChunkEnd ==
  /\ mpc = "trial" /\ action \in {"Hit", "Double Down"} /\ n >= chunk_size
  /\ ev' = <<ev[1] + ev_chunk, 1>>
  /\ Checkpoint(ev[1] + ev_chunk)
  /\ UNCHANGED <<shoeVars, inVars, player_total, is_soft_player, chunk_size, n, ev_chunk,
                 split_ev_accumulator, final_ev, trialVars, dealerVars,
                 selVars, sessVars, replayVars>>

\* Split, line 403: no checkpoint is appended.
SplitChunkEnd ==
  /\ mpc = "trial" /\ action = "Split" /\ n >= chunk_size
  /\ split_ev_accumulator' = split_ev_accumulator + ev_chunk
  /\ i' = i + 1
  /\ mpc' = "chunk"
  /\ UNCHANGED <<shoeVars, err, inVars, player_total, is_soft_player, chunk_size, ev,
                 checkpoint_means, n, ev_chunk, final_ev, trialVars, dealerVars,
                 selVars, sessVars, replayVars>>

(***************************************************************************)
(* monte_carlo_ev: one trial of Hit, Double Down, Split.                   *)
(***************************************************************************)
\* Lines 267-278 and 308-319: the pool with the known cards removed.
TrialPool(counts, p_cards, upcard) ==
  RemoveIfPresent(RemoveEach(build_shoe_list(counts), p_cards), upcard)

HitTrial ==
  /\ mpc = "trial" /\ action = "Hit" /\ n < chunk_size
  /\ local_shoe' = TrialPool(shoe_counts, player_cards, dealer_card_val)
  /\ tmp_cards' = player_cards
  /\ mpc' = "play"
  /\ UNCHANGED <<shoeVars, err, inVars, estVars, sub, result_1, result_2, p_total, d_total,
                 dealer_totals, dealerVars, selVars, sessVars, replayVars>>

\* play_out_hand, lines 233-238: the loop goes on.
PlayerDraws(p_cards, local_deck) == hand_value(p_cards) < PLAYER_STAND /\ local_deck # <<>>

\* play_out_hand, lines 240-245: one draw; a bust leaves the loop.
PlayDraw ==
  /\ mpc = "play"
  /\ PlayerDraws(tmp_cards, local_shoe)
  /\ \E new_card_val \in Choices(local_shoe) :
       /\ local_shoe' = ListRemove(local_shoe, new_card_val)
       /\ tmp_cards' = Append(tmp_cards, new_card_val)
       /\ mpc' = IF hand_value(Append(tmp_cards, new_card_val)) > 21 THEN "played" ELSE "play"
  /\ UNCHANGED <<shoeVars, err, inVars, estVars, sub, result_1, result_2, p_total, d_total,
                 dealer_totals, dealerVars, selVars, sessVars>>

\* play_out_hand, lines 235-238 and 246: break and return.
PlayStop ==
  /\ mpc = "play"
  /\ ~PlayerDraws(tmp_cards, local_shoe)
  /\ mpc' = "played"
  /\ UNCHANGED <<shoeVars, err, inVars, estVars, trialVars, dealerVars,
                 selVars, sessVars, replayVars>>

\* Lines 290-296.
HitPayoff_DealerBustFirst(p, d) ==
  IF d > BLACKJACK THEN 1
  ELSE IF p > BLACKJACK THEN -1
  ELSE IF p > d THEN 1
  ELSE IF p < d THEN -1
  ELSE 0

HitPayoff(p, d) ==
  IF p > BLACKJACK THEN -1
  ELSE IF d > BLACKJACK \/ p > d THEN 1
  ELSE IF p < d THEN -1
  ELSE 0

HitResolve ==
  /\ mpc = "resolve" /\ action = "Hit"
  /\ ev_chunk' = ev_chunk + HitPayoff(p_total, d_total)
  /\ n' = n + 1
  /\ mpc' = "trial"
  /\ UNCHANGED <<shoeVars, err, inVars, player_total, is_soft_player, chunk_size, ev,
                 checkpoint_means, i, split_ev_accumulator, final_ev, trialVars,
                 dealerVars, selVars, sessVars, replayVars>>

\* Double Down, lines 308-319.
DoubleTrial ==
  /\ mpc = "trial" /\ action = "Double Down" /\ n < chunk_size
  /\ local_shoe' = TrialPool(shoe_counts, player_cards, dealer_card_val)
  /\ tmp_cards' = player_cards
  /\ mpc' = "double"
  /\ UNCHANGED <<shoeVars, err, inVars, estVars, sub, result_1, result_2, p_total, d_total,
                 dealer_totals, dealerVars, selVars, sessVars, replayVars>>

\* Lines 322-325: "draw_val = random.choice(local_shoe) if local_shoe else 0".
DoubleDraw ==
  /\ mpc = "double"
  /\ IF local_shoe # <<>>
     THEN \E draw_val \in Choices(local_shoe) :
            /\ local_shoe' = ListRemove(local_shoe, draw_val)
            /\ tmp_cards' = Append(tmp_cards, draw_val)
     ELSE /\ tmp_cards' = Append(tmp_cards, 0)
          /\ UNCHANGED local_shoe
  /\ mpc' = "played"
  /\ UNCHANGED <<shoeVars, err, inVars, estVars, sub, result_1, result_2, p_total, d_total,
                 dealer_totals, dealerVars, selVars, sessVars>>

\* Lines 333-339.
DoublePayoff_OneUnit(p, d) ==
  IF p > BLACKJACK THEN -1
  ELSE IF d > BLACKJACK \/ p > d THEN 1
  ELSE IF p < d THEN -1
  ELSE 0

DoublePayoff(p, d) ==
  IF p > BLACKJACK THEN -2
  ELSE IF d > BLACKJACK \/ p > d THEN 2
  ELSE IF p < d THEN -2
  ELSE 0

DoubleResolve ==
  /\ mpc = "resolve" /\ action = "Double Down"
  /\ ev_chunk' = ev_chunk + DoublePayoff(p_total, d_total)
  /\ n' = n + 1
  /\ mpc' = "trial"
  /\ UNCHANGED <<shoeVars, err, inVars, player_total, is_soft_player, chunk_size, ev,
                 checkpoint_means, i, split_ev_accumulator, final_ev, trialVars,
                 dealerVars, selVars, sessVars, replayVars>>

\* Split, lines 356-367; split_card_val = player_cards[0] (line 348).
split_card_val == player_cards[1]

SplitTrial ==
  /\ mpc = "trial" /\ action = "Split" /\ n < chunk_size
  /\ LET pool == build_shoe_list(shoe_counts)
     IN  IF Count(pool, split_card_val) >= 2
         THEN /\ local_shoe' = RemoveIfPresent(
                                 ListRemove(ListRemove(pool, split_card_val), split_card_val),
                                 dealer_card_val)
              /\ sub' = 1
              /\ mpc' = "subhand"
              /\ UNCHANGED n
         ELSE \* "continue": the trial ends here, nothing is added to ev_chunk
              /\ local_shoe' = pool
              /\ n' = n + 1
              /\ UNCHANGED <<sub, mpc>>
  /\ UNCHANGED <<shoeVars, err, inVars, player_total, is_soft_player, chunk_size, ev,
                 checkpoint_means, i, ev_chunk, split_ev_accumulator, final_ev, tmp_cards,
                 result_1, result_2, p_total, d_total, dealer_totals, dealerVars,
                 selVars, sessVars, replayVars>>

\* Lines 370-373 and 387-390: random.choice raises IndexError on an empty list.
SubHandDraw ==
  /\ mpc = "subhand"
  /\ IF local_shoe = <<>>
     THEN /\ err' = "IndexError"
          /\ mpc' = "raised"
          /\ UNCHANGED <<local_shoe, tmp_cards>>
     ELSE /\ \E new_card \in Choices(local_shoe) :
               /\ local_shoe' = ListRemove(local_shoe, new_card)
               /\ tmp_cards' = <<split_card_val, new_card>>
          /\ mpc' = "play"
          /\ UNCHANGED err
  /\ UNCHANGED <<shoeVars, inVars, estVars, sub, result_1, result_2, p_total, d_total,
                 dealer_totals, dealerVars, selVars, sessVars>>

\* Lines 383 and 397-401.
SplitResolve ==
  /\ mpc = "resolve" /\ action = "Split"
  /\ IF sub = 1
     THEN /\ result_1' = compare_final_totals(p_total, d_total)
          /\ sub' = 2
          /\ mpc' = "subhand"
          /\ UNCHANGED <<result_2, ev_chunk, n>>
     ELSE /\ result_2' = compare_final_totals(p_total, d_total)
          /\ ev_chunk' = ev_chunk + (result_1 + result_2')
          /\ n' = n + 1
          /\ mpc' = "trial"
          /\ UNCHANGED <<result_1, sub>>
  /\ UNCHANGED <<shoeVars, err, inVars, player_total, is_soft_player, chunk_size, ev,
                 checkpoint_means, i, split_ev_accumulator, final_ev, local_shoe, tmp_cards,
                 p_total, d_total, dealer_totals, dealerVars, selVars, sessVars, replayVars>>

(***************************************************************************)
(* monte_carlo_ev: after the loops.                                        *)
(***************************************************************************)
\* The loop of 10 chunks is over; Split, line 405:
\* "ev = split_ev_accumulator / (10 * chunk_size)".
LoopExit ==
  /\ mpc = "chunk" /\ i >= 10
  /\ IF action = "Split"
     THEN IF 10 * chunk_size = 0
          THEN err' = "ZeroDivisionError" /\ mpc' = "raised" /\ UNCHANGED ev
          ELSE ev' = <<split_ev_accumulator, 10 * chunk_size>> /\ mpc' = "scale"
                 /\ UNCHANGED err
     ELSE mpc' = "scale" /\ UNCHANGED <<ev, err>>
  /\ UNCHANGED <<shoeVars, inVars, player_total, is_soft_player, chunk_size,
                 checkpoint_means, i, n, ev_chunk, split_ev_accumulator, final_ev,
                 trialVars, dealerVars, selVars, sessVars, replayVars>>

\* Lines 410-422: "final_ev = (ev / simulations) * RTP", then the return.
McReturn ==
  /\ mpc = "scale"
  /\ IF simulations = 0
     THEN err' = "ZeroDivisionError" /\ mpc' = "raised" /\ UNCHANGED final_ev
     ELSE /\ final_ev' = <<ev[1] * RTP_NUM, ev[2] * simulations * RTP_DEN>>
          /\ mpc' = "returned"
          /\ UNCHANGED err
  /\ UNCHANGED <<shoeVars, inVars, player_total, is_soft_player, chunk_size, ev,
                 checkpoint_means, i, n, ev_chunk, split_ev_accumulator, trialVars,
                 dealerVars, selVars, sessVars, replayVars>>

(***************************************************************************)
(* get_player_action.                                                      *)
(***************************************************************************)
\* Lines 429-443: the actions that are evaluated.
ActionList_AnyTurn(p_cards, first_turn, split_hand) ==
  <<"Stand", "Hit">>
    \o (IF Len(p_cards) = 2 /\ ~split_hand THEN <<"Double Down">> ELSE <<>>)
    \o (IF Len(p_cards) = 2 /\ p_cards[1] = p_cards[2] THEN <<"Split">> ELSE <<>>)

ActionList(p_cards, first_turn, split_hand) ==
  <<"Stand", "Hit">>
    \o (IF first_turn /\ Len(p_cards) = 2 /\ ~split_hand THEN <<"Double Down">> ELSE <<>>)
    \o (IF first_turn /\ Len(p_cards) = 2 /\ p_cards[1] = p_cards[2] THEN <<"Split">> ELSE <<>>)

\* Line 454: sorted(evs.items(), key=lambda x: x[1], reverse=True).  The
\* sort is stable, also when reversed: among equal EVs the earlier stays first.
SortedActions_TiesReversed(acts, values) ==
  LET place(k) == 1 + Cardinality({j \in 1..Len(acts) : values[j] > values[k]})
                    + Cardinality({j \in (k + 1)..Len(acts) : values[j] = values[k]})
  IN  [pos \in 1..Len(acts) |-> acts[CHOOSE k \in 1..Len(acts) : place(k) = pos]]

SortedActions(acts, values) ==
  LET place(k) == 1 + Cardinality({j \in 1..Len(acts) : values[j] > values[k]})
                    + Cardinality({j \in 1..(k - 1) : values[j] = values[k]})
  IN  [pos \in 1..Len(acts) |-> acts[CHOOSE k \in 1..Len(acts) : place(k) = pos]]

\* The EVs monte_carlo_ev can hand back for the actions, in a common unit.
EvChoices == {-1, 0, 1}

\* Lines 429-478, the prints left out.  The EV of each action is the outcome
\* of a randomized estimate: any of EvChoices.
GetPlayerAction ==
  /\ gpc = "call"
  /\ actions' = ActionList(player_cards, is_first_turn, is_split_hand)
  /\ evs' \in [1..Len(actions') -> EvChoices]
  /\ LET sorted_actions == SortedActions(actions', evs')
     IN  /\ best_action' = sorted_actions[1]
         /\ second_best_action' = IF Len(sorted_actions) > 1 THEN sorted_actions[2] ELSE "None"
  /\ gpc' = "returned"
  /\ UNCHANGED <<shoeVars, err, inVars, mpc, estVars, trialVars, dealerVars,
                 is_first_turn, is_split_hand, sessVars, replayVars>>

(***************************************************************************)
(* Specifications of monte_carlo_ev.                                       *)
(***************************************************************************)
InputValues == {RANK_TO_VALUE[r] : r \in InputRanks}

\* Shoes the session can hand over: counts within 0..4 * NUM_DECKS, here
\* with at most k cards left, all of them of the input ranks.
ShoeTotal(counts) == SumSeq([x \in 1..Len(ALL_RANKS) |-> counts[ALL_RANKS[x]]])

ShoesUpTo(k) ==
  {[r \in RankSet |-> IF r \in InputRanks THEN c[r] ELSE 0] :
     c \in {d \in [InputRanks -> 0..k] :
             /\ \A r \in InputRanks : d[r] <= 4 * NUM_DECKS
             /\ ShoeTotal([r \in RankSet |-> IF r \in InputRanks THEN d[r] ELSE 0]) <= k}}

\* Hands after one hit: a bust, a 21, a hard 16 holding an Ace.
HitHands == {<<10, 6, 10>>, <<10, 6, 5>>, <<11, 5, 10>>}

TrialSteps ==
  \/ HitTrial \/ PlayStop \/ HitResolve
  \/ DoubleTrial \/ DoubleResolve
  \/ SplitTrial \/ SplitResolve
  \/ DealerCall \/ DealerReturn
  \/ PlayDraw /\ UNCHANGED replayVars
  \/ DoubleDraw /\ UNCHANGED replayVars
  \/ SubHandDraw /\ UNCHANGED replayVars
  \/ DealerDraw /\ UNCHANGED replayVars

\* One chunk of one trial of each action get_player_action evaluates (every
\* action on the first turn's two cards, Stand and Hit after a hit), from
\* every small shoe.
InitTrial ==
  /\ shoe_counts \in ShoesUpTo(MaxShoe)
  /\ player_cards \in [1..2 -> InputValues] \cup HitHands
  /\ dealer_card_val \in InputValues
  /\ action \in Range(ActionList(player_cards, Len(player_cards) = 2, FALSE))
  /\ simulations = 10
  /\ ShoeIdle /\ err = "none" /\ EstIdle /\ SelIdle /\ SessIdle /\ ReplayIdle

NextTrial ==
  \/ McEnter
  \/ i = 0 /\ StandChunk
  \/ i = 0 /\ TrialChunk
  \/ TrialSteps
  \/ StandChunkEnd \/ TrialChunkEnd \/ SplitChunkEnd

SpecTrial == InitTrial /\ [][NextTrial]_vars

\* C4: when simulate_dealer_hand_once returns, the dealer's total is >= 17
\* unless its private copy of the shoe is empty at that moment.
C4_DealerStands ==
  /\ mpc = "resolve" =>
       /\ d_total = hand_value(dealer_cards)
       /\ d_total >= 17 \/ dealer_shoe = <<>>
  /\ (action = "Stand" /\ mpc = "sims" /\ dealer_totals # <<>>) =>
       /\ dealer_totals[Len(dealer_totals)] = hand_value(dealer_cards)
       /\ dealer_totals[Len(dealer_totals)] >= 17 \/ dealer_shoe = <<>>

\* C4 witness: the dealer drew at least two cards and stood on 17..21 with
\* cards left in the copy.
C4_Witness ==
  /\ mpc = "resolve"
  /\ Len(dealer_cards) >= 3
  /\ d_total \in 17..21
  /\ dealer_shoe # <<>>

\* C4, the exhausted case: a return below 17 with the copy drawn empty.
C4_WitnessExhausted ==
  /\ mpc = "resolve"
  /\ Len(dealer_cards) >= 2
  /\ d_total < 17
  /\ dealer_shoe = <<>>

\* The dealer playouts of one Stand chunk, from every small shoe; the
\* sequential program always takes its next step.
InitDealer ==
  /\ shoe_counts \in ShoesUpTo(MaxShoe)
  /\ player_cards = <<10, 6>>
  /\ dealer_card_val \in InputValues
  /\ action = "Stand"
  /\ simulations = 10
  /\ ShoeIdle /\ err = "none" /\ EstIdle /\ SelIdle /\ SessIdle /\ ReplayIdle

NextDealer ==
  \/ McEnter
  \/ i = 0 /\ StandChunk
  \/ DealerCall \/ DealerReturn
  \/ DealerDraw /\ UNCHANGED replayVars
  \/ StandChunkEnd

FairSpecDealer == InitDealer /\ [][NextDealer]_vars /\ WF_vars(NextDealer)

\* C5: a dealer playout always ends (Drawing leads to Done), and the cards it
\* draws never outnumber the cards of its private snapshot of the list handed
\* to it (the upcard removed from it once when present).
C5_DealerTerminates ==
  /\ [](mpc \in {"dealer", "sims"} /\ dealer_cards # <<>> =>
          (Len(dealer_cards) - 1) + Len(dealer_shoe)
             = Len(local_shoe) - (IF Contains(local_shoe, dealer_card_val) THEN 1 ELSE 0))
  /\ (mpc = "dealer") ~> (mpc # "dealer")

\* C5 witness: a playout that ended after drawing every card of its snapshot.
C5_Witness ==
  /\ mpc = "sims"
  /\ Len(dealer_cards) - 1 = Len(local_shoe)
  /\ Len(dealer_cards) >= 4

\* The resolution rule: the payoff sign from the two final totals.
Rule(p, d) ==
  CASE p > 21 -> -1
    [] p <= 21 /\ d > 21 -> 1
    [] p <= 21 /\ d <= 21 /\ p > d -> 1
    [] p <= 21 /\ d <= 21 /\ p < d -> -1
    [] OTHER -> 0

Sign(x) == IF x > 0 THEN 1 ELSE IF x < 0 THEN -1 ELSE 0

RECURSIVE RuleSum(_, _)
RuleSum(p, totals) == IF totals = <<>> THEN 0 ELSE Rule(p, Head(totals)) + RuleSum(p, Tail(totals))

\* C6: for Hit, Double Down, each Split sub-hand and Stand, the sign of a
\* trial's payoff follows from the final totals alone: loss if the player is
\* above 21 (even when the dealer busts too), else win if the dealer is above
\* 21, else win, loss or push by comparing the totals.
C6_Resolution ==
  [][/\ mpc = "resolve" =>
          /\ p_total = hand_value(tmp_cards)
          /\ d_total = hand_value(dealer_cards)
     /\ (mpc = "resolve" /\ action \in {"Hit", "Double Down"}) =>
          Sign(ev_chunk' - ev_chunk) = Rule(p_total, d_total)
     /\ (mpc = "resolve" /\ action = "Split" /\ sub = 1) =>
          result_1' = Rule(p_total, d_total)
     /\ (mpc = "resolve" /\ action = "Split" /\ sub = 2) =>
          /\ result_2' = Rule(p_total, d_total)
          /\ ev_chunk' - ev_chunk = result_1 + result_2'
     /\ (action = "Stand" /\ mpc = "sims" /\ mpc' \in {"chunk", "raised"}) =>
          ev_chunk' = RuleSum(hand_value(player_cards), dealer_totals)]_vars

\* C6 witness: a Hit trial lost by a player bust although the dealer busted too.
C6_Witness ==
  /\ action = "Hit" /\ mpc = "trial" /\ n = 1
  /\ p_total > 21 /\ d_total > 21
  /\ ev_chunk = -1

\* C6, Stand: a soft player hand stood against a dealer total it beats and a
\* bust player hand stood against a dealer bust.
C6_WitnessStandSoft ==
  /\ action = "Stand" /\ mpc = "chunk" /\ i = 1
  /\ is_soft_player /\ dealer_totals # <<>> /\ ev_chunk = 1

C6_WitnessStandBust ==
  /\ action = "Stand" /\ mpc = "chunk" /\ i = 1
  /\ player_total > 21 /\ dealer_totals # <<>> /\ dealer_totals[1] > 21 /\ ev_chunk = -1

\* The pool of a Double Down trial before its draw.
DoublePool == TrialPool(shoe_counts, player_cards, dealer_card_val)

DoubleDrawn == action = "Double Down" /\ mpc \in {"played", "dealer", "resolve"}

\* C7 as claimed: every Double Down trial draws exactly one card from the
\* trial's pool, adds it to the hand, draws no further player card, and
\* contributes exactly -2, +2 or 0.
C7_Original ==
  /\ [](DoubleDrawn =>
          \E c \in Choices(DoublePool) :
             /\ tmp_cards = Append(player_cards, c)
             /\ local_shoe = ListRemove(DoublePool, c))
  /\ [][(mpc = "resolve" /\ action = "Double Down") =>
          /\ ev_chunk' - ev_chunk = 2 * Rule(p_total, d_total)
          /\ tmp_cards' = tmp_cards /\ local_shoe' = local_shoe]_vars

\* C7 amended: a Double Down trial whose pool is not empty draws exactly one
\* card from it, adds it to the hand and draws no further player card; with
\* an empty pool it draws nothing and appends the value 0; either way the
\* trial contributes exactly -2 (bust or loss), +2 (win) or 0 (push).
C7_DoubleDown ==
  /\ [](DoubleDrawn =>
          IF DoublePool # <<>>
          THEN \E c \in Choices(DoublePool) :
                  /\ tmp_cards = Append(player_cards, c)
                  /\ local_shoe = ListRemove(DoublePool, c)
          ELSE tmp_cards = Append(player_cards, 0) /\ local_shoe = <<>>)
  /\ [][(mpc = "resolve" /\ action = "Double Down") =>
          /\ ev_chunk' - ev_chunk = 2 * Rule(p_total, d_total)
          /\ tmp_cards' = tmp_cards /\ local_shoe' = local_shoe]_vars

\* C7 witness: a Double Down trial that drew one card and won 2.
C7_Witness ==
  /\ action = "Double Down" /\ mpc = "trial" /\ n = 1
  /\ Len(tmp_cards) = Len(player_cards) + 1
  /\ tmp_cards[Len(tmp_cards)] # 0
  /\ Len(local_shoe) = Len(DoublePool) - 1
  /\ ev_chunk = 2

\* C7, the empty pool: the value 0 was appended and the trial lost 2.
C7_WitnessEmptyPool ==
  /\ action = "Double Down" /\ mpc = "trial" /\ n = 1
  /\ DoublePool = <<>>
  /\ tmp_cards = Append(player_cards, 0)
  /\ ev_chunk = -2

(***************************************************************************)
(* Specification of get_player_action.                                     *)
(***************************************************************************)
InitSelect ==
  /\ player_cards \in [1..2 -> InputValues] \cup HitHands
  /\ dealer_card_val = 10
  /\ is_first_turn \in BOOLEAN
  /\ is_split_hand \in BOOLEAN
  /\ shoe_counts = initialize_shoe_counts(NUM_DECKS)
  /\ action = "none" /\ simulations = SIMULATIONS
  /\ ShoeIdle /\ err = "none" /\ EstIdle /\ SessIdle /\ ReplayIdle
  /\ actions = <<>> /\ evs = <<>> /\ best_action = "none"
  /\ second_best_action = "none" /\ gpc = "call"

NextSelect == GetPlayerAction

SpecSelect == InitSelect /\ [][NextSelect]_vars

\* C8: get_player_action evaluates, and so can return, Double Down only on
\* the first turn with exactly two cards and Split only when in addition the
\* two cards have the same value; Stand and Hit are always evaluated.
C8_LegalActions ==
  gpc = "returned" =>
    /\ "Double Down" \in Range(actions) => (is_first_turn /\ Len(player_cards) = 2)
    /\ "Split" \in Range(actions) =>
         (is_first_turn /\ Len(player_cards) = 2 /\ player_cards[1] = player_cards[2])
    /\ {"Stand", "Hit"} \subseteq Range(actions)
    /\ DOMAIN evs = DOMAIN actions
    /\ best_action \in Range(actions)

\* C8 witness: a pair held after the first turn was offered Stand and Hit only.
C8_Witness ==
  /\ gpc = "returned"
  /\ ~is_first_turn
  /\ Len(player_cards) = 2 /\ player_cards[1] = player_cards[2]
  /\ actions = <<"Stand", "Hit">>

\* C8, the first turn: a pair was offered all four actions and Split came out best.
C8_WitnessSplit ==
  /\ gpc = "returned"
  /\ is_first_turn /\ ~is_split_hand
  /\ actions = <<"Stand", "Hit", "Double Down", "Split">>
  /\ best_action = "Split"

(***************************************************************************)
(* Specification of a whole estimate: monte_carlo_ev from its call to its  *)
(* return, for legal and illegal requests, on a few small shoes.           *)
(***************************************************************************)
\* The shoe holding the given cards and no others.
ShoeOf(held) == [r \in RankSet |-> IF r \in DOMAIN held THEN held[r] ELSE 0]

\* An empty shoe, one card, two cards that make the dealer's total depend on
\* the draw order, and a shoe that lets both sub-hands of a pair of Aces draw.
McShoes ==
  {ShoeOf(<<>>), ShoeOf("T" :> 1), ShoeOf("5" :> 1 @@ "A" :> 1),
   ShoeOf("A" :> 2 @@ "T" :> 1 @@ "K" :> 1)}

\* A non-pair, a pair, a hand of three cards.
McHands == {<<10, 6>>, <<11, 11>>, <<10, 6, 5>>}

\* Trial counts: every count below 10, 10, not a multiple of 10.
SimChoices == (0..10) \cup {15}

\* Two trials a chunk, on the shoes whose trials have one outcome only.
SimChoicesFor(counts) == IF ShoeTotal(counts) <= 1 THEN SimChoices \cup {20} ELSE SimChoices

InitMC ==
  /\ shoe_counts \in McShoes
  /\ player_cards \in McHands
  /\ dealer_card_val = 6
  /\ action \in KnownActions \cup {"Surrender"}
  /\ simulations \in SimChoicesFor(shoe_counts)
  /\ ShoeIdle /\ err = "none" /\ EstIdle /\ SelIdle /\ SessIdle /\ ReplayIdle

NextMC ==
  \/ McEnter
  \/ StandChunk \/ TrialChunk
  \/ TrialSteps
  \/ StandChunkEnd \/ TrialChunkEnd \/ SplitChunkEnd
  \/ LoopExit \/ McReturn

SpecMC == InitMC /\ [][NextMC]_vars

\* A request outside its legality window: Split on a hand that is not a pair
\* of equal values, Double Down on a hand that has not exactly two cards, an
\* unknown action name.
IllegalRequest ==
  \/ action = "Split" /\ ~(Len(player_cards) = 2 /\ player_cards[1] = player_cards[2])
  \/ action = "Double Down" /\ Len(player_cards) # 2
  \/ action \notin KnownActions

\* C9 as claimed: monte_carlo_ev rejects an illegal request with an error
\* before any trial is run, and never returns an EV for it.
C9_RejectsIllegal ==
  IllegalRequest =>
    /\ mpc # "returned"
    /\ mpc \notin {"play", "played", "double", "subhand", "dealer", "resolve"}

\* C10 as claimed, for the legal requests: each of the four actions, run with
\* 10 trials or more, returns a convergence trace of exactly 10 entries.
C10_TraceOfTen ==
  (mpc = "returned" /\ action \in KnownActions /\ ~IllegalRequest /\ simulations >= 10) =>
    Len(checkpoint_means) = 10

\* C11 as claimed: for a legal Split the returned EV is RTP x (sum over the
\* executed trials of result_1 + result_2) / trials, the accumulated sum
\* being divided by the trial count exactly once.
C11_SplitEV ==
  (mpc = "returned" /\ action = "Split" /\ ~IllegalRequest) =>
    final_ev[1] * (RTP_DEN * simulations) = (RTP_NUM * split_ev_accumulator) * final_ev[2]

\* C12: an estimate leaves the caller's shoe counts, the caller's hand and the
\* running count as they are; a dealer playout leaves the list handed to it as
\* it is and starts from that list whatever earlier playouts drew; every trial
\* starts from the same pool whatever earlier trials drew.
C12_Frame ==
  [][/\ shoe_counts' = shoe_counts
     /\ player_cards' = player_cards
     /\ running_count' = running_count
     /\ (mpc = "dealer" \/ mpc' = "dealer") => local_shoe' = local_shoe
     /\ (mpc # "dealer" /\ mpc' = "dealer") =>
          dealer_shoe' = RemoveIfPresent(local_shoe, dealer_card_val)
     /\ (mpc = "sims" /\ mpc' = "dealer") => local_shoe = build_shoe_list(shoe_counts)
     /\ (mpc = "trial" /\ mpc' \in {"play", "double"}) =>
          /\ tmp_cards' = player_cards
          /\ local_shoe' = RemoveIfPresent(RemoveEach(build_shoe_list(shoe_counts), player_cards),
                                           dealer_card_val)
     /\ (mpc = "trial" /\ mpc' = "subhand") =>
          local_shoe' = RemoveIfPresent(
                          ListRemove(ListRemove(build_shoe_list(shoe_counts), player_cards[1]),
                                     player_cards[1]),
                          dealer_card_val)]_vars

\* C12 witness: the second chunk's Hit trial starts from the full pool and the
\* caller's hand although the first trial drew from its pool.
C12_Witness ==
  /\ action = "Hit" /\ mpc = "play" /\ i = 1
  /\ hand_value(player_cards) < PLAYER_STAND
  /\ tmp_cards = player_cards
  /\ local_shoe # <<>>
  /\ local_shoe = TrialPool(shoe_counts, player_cards, dealer_card_val)
  /\ shoe_counts \in McShoes

\* C12, Stand: a later dealer playout of the estimate starts from the whole
\* list although an earlier playout drew a card.
C12_WitnessDealer ==
  /\ action = "Stand" /\ mpc = "dealer" /\ i = 1
  /\ dealer_cards = <<dealer_card_val>>
  /\ dealer_shoe = local_shoe /\ local_shoe # <<>>

\* Two lists hold the same cards.
SameCards(a, b) == \A v \in 0..11 : Count(a, v) = Count(b, v)

\* The committed shoe as a list: main has already removed the known cards
\* from shoe_counts before the estimate is called.
CommittedShoe == build_shoe_list(shoe_counts)

\* C13 as claimed: in every trial the pool from which the first unknown card
\* is drawn holds exactly the cards of the committed shoe; no known card is
\* removed a second time inside the trial or inside the dealer playout.
C13_PoolIsCommittedShoe ==
  /\ (action = "Hit" /\ mpc = "play" /\ tmp_cards = player_cards) =>
       SameCards(local_shoe, CommittedShoe)
  /\ (action = "Double Down" /\ mpc = "double") => SameCards(local_shoe, CommittedShoe)
  /\ (action = "Stand" /\ mpc = "dealer" /\ dealer_cards = <<dealer_card_val>>) =>
       SameCards(dealer_shoe, CommittedShoe)

\* C16 as claimed: when a trial's snapshot runs out of cards the trial
\* completes without raising an error, the hand that cannot draw standing at
\* its current total.
C16_ExhaustionIsSafe ==
  (action \in KnownActions /\ ~IllegalRequest /\ simulations >= 10) =>
    (mpc # "raised" /\ err = "none")

\* C17 as claimed: every executed trial contributes its resolved payoff (or
\* aborts the estimate); the count of trials done advances only in the step
\* that resolves the trial's payoff, never by skipping the trial.
C17_NoSkippedTrial ==
  [][n' = n + 1 => mpc = "resolve"]_vars

\* The position of an evaluated action in the fixed order of evaluation.
IndexOf(a) == CHOOSE k \in 1..Len(actions) : actions[k] = a

\* C18: the returned action has the greatest EV of the evaluated actions and
\* the runner-up the greatest EV of the others; among equal EVs the action
\* earlier in the order Stand, Hit, Double Down, Split is ranked first.
C18_BestByEV ==
  gpc = "returned" =>
    LET b == IndexOf(best_action)
        s == IndexOf(second_best_action)
        others == (1..Len(actions)) \ {b}
    IN  /\ best_action \in Range(actions) /\ second_best_action \in Range(actions)
        /\ \A k \in 1..Len(actions) : evs[k] <= evs[b]
        /\ \A k \in 1..(b - 1) : evs[k] < evs[b]
        /\ s # b
        /\ \A k \in others : evs[k] <= evs[s]
        /\ \A k \in others : k < s => evs[k] < evs[s]

\* C18 witness: Hit and Split tie for the best EV, Stand and Double Down tie
\* below; Hit is returned and Split is the runner-up.
C18_Witness ==
  /\ gpc = "returned"
  /\ actions = <<"Stand", "Hit", "Double Down", "Split">>
  /\ evs = <<0, 1, 0, 1>>
  /\ best_action = "Hit" /\ second_best_action = "Split"

(***************************************************************************)
(* main: the session loop.                                                 *)
(***************************************************************************)
\* Largest absolute running count the session is followed to (a failed hand
\* keeps the count of its undone removals, so the count can drift).
MaxRunning == 6

\* Longest removal string typed at the pre-calculation and final prompts.
MaxTyped == 2

\* What the user types: card symbols, "X" standing for any symbol that is
\* not in ALL_RANKS.
SessionRanks == {"5", "T"}

SessionSymbols == SessionRanks \cup {"X"}

TypedStrings == UNION {[1..k -> SessionSymbols] : k \in 0..MaxTyped}

\* "for c in <input>: if c not in ALL_RANKS: raise ValueError(...);
\*  remove_card_from_shoe(shoe_counts, c)" from the state st = [counts, rc, ok]:
\* the loop stops at the first symbol that raises.
RemoveOne(st, c) ==
  IF ~st.ok THEN st
  ELSE IF c \notin RankSet THEN [st EXCEPT !.ok = FALSE]
  ELSE IF RemoveGuard(st.counts, c)
       THEN [counts |-> Decrement(st.counts, c), rc |-> st.rc + COUNTING_SYSTEM[c], ok |-> TRUE]
       ELSE [st EXCEPT !.ok = FALSE]

RECURSIVE RemoveTyped(_, _)
RemoveTyped(st, typed) ==
  IF typed = <<>> THEN st ELSE RemoveTyped(RemoveOne(st, Head(typed)), Tail(typed))

Before == [counts |-> shoe_counts, rc |-> running_count, ok |-> TRUE]

Abs(x) == IF x < 0 THEN 0 - x ELSE x

\* The removals of one prompt applied as far as they go; a raise leads to the
\* except clause, success to the position next.
Typed(typed, next) ==
  LET st == RemoveTyped(Before, typed)
  IN  /\ Abs(st.rc) <= MaxRunning
      /\ user_input' = typed
      /\ shoe_counts' = st.counts
      /\ running_count' = st.rc
      /\ err' = IF st.ok THEN "none" ELSE "ValueError"
      /\ mainpc' = IF st.ok THEN next ELSE "except"

\* "if <input> == '0': shoe_counts = initialize_shoe_counts(NUM_DECKS);
\*  running_count = 0; continue"
ResetShoe_KeepCount ==
  /\ user_input' = <<"0">>
  /\ shoe_counts' = initialize_shoe_counts(NUM_DECKS)
  /\ mainpc' = "top"
  /\ UNCHANGED <<running_count, err>>

ResetShoe ==
  /\ user_input' = <<"0">>
  /\ shoe_counts' = initialize_shoe_counts(NUM_DECKS)
  /\ running_count' = 0
  /\ mainpc' = "top"
  /\ UNCHANGED err

handVars == <<player_cards, dealer_card_val, is_first_turn, is_split_hand, best_action>>

idleVars == <<last_rank, action, simulations, mpc, estVars, trialVars, dealerVars,
              evs, second_best_action, gpc, replayVars>>

restVars == <<actions, idleVars>>

\* Line 515: "backup_shoe_counts = shoe_counts.copy()".  The names of the
\* hand hold nothing that is read before it is assigned again.
MainTop ==
  /\ mainpc = "top"
  /\ backup_shoe_counts' = shoe_counts
  /\ player_cards' = <<>> /\ dealer_card_val' = 0
  /\ is_first_turn' = TRUE /\ is_split_hand' = FALSE /\ best_action' = "none"
  /\ actions' = <<>>
  /\ mainpc' = "dealer"
  /\ UNCHANGED <<shoe_counts, running_count, err, user_input, idleVars>>

\* Lines 531-539: the dealer prompt.  '0' resets; anything but one symbol of
\* ALL_RANKS raises; the card is removed and becomes the upcard.
DealerPrompt ==
  /\ mainpc = "dealer"
  /\ \/ ResetShoe /\ UNCHANGED dealer_card_val
     \/ \E c \in SessionSymbols :
          /\ Typed(<<c>>, "player")
          /\ dealer_card_val' = IF mainpc' = "player" THEN RANK_TO_VALUE[c] ELSE dealer_card_val
  /\ UNCHANGED <<backup_shoe_counts, player_cards, is_first_turn, is_split_hand, best_action,
                 restVars>>

\* Lines 552-566: the player prompt.  '0' resets; an input that is not two
\* characters long raises before any removal; the two cards are removed in turn.
PlayerPrompt ==
  /\ mainpc = "player"
  /\ \/ ResetShoe /\ UNCHANGED player_cards
     \/ /\ \E typed \in TypedStrings : Len(typed) # 2 /\ user_input' = typed
        /\ err' = "ValueError" /\ mainpc' = "except"
        /\ UNCHANGED <<shoe_counts, running_count, player_cards>>
     \/ \E typed \in [1..2 -> SessionSymbols] :
          /\ Typed(typed, "precalc")
          /\ player_cards' = IF mainpc' = "precalc"
                             THEN <<RANK_TO_VALUE[typed[1]], RANK_TO_VALUE[typed[2]]>>
                             ELSE player_cards
  /\ UNCHANGED <<backup_shoe_counts, dealer_card_val, is_first_turn, is_split_hand,
                 best_action, restVars>>

\* Lines 568-582: the removals before the calculation, then the flags.
PrecalcPrompt ==
  /\ mainpc = "precalc"
  /\ \/ ResetShoe
     \/ \E typed \in TypedStrings : Typed(typed, "decide")
  /\ is_split_hand' = FALSE /\ is_first_turn' = TRUE
  /\ UNCHANGED <<backup_shoe_counts, player_cards, dealer_card_val, best_action, restVars>>

\* Lines 586-596 and 608-618: get_player_action hands back one of the
\* actions it evaluates; Hit asks for the card, everything else ends the loop.
Decide_KeepFirstTurn ==
  /\ mainpc = "decide"
  /\ actions' = ActionList(player_cards, is_first_turn, is_split_hand)
  /\ \E a \in Range(actions') :
       /\ best_action' = a
       /\ is_split_hand' = (IF a = "Split" THEN TRUE ELSE is_split_hand)
       /\ mainpc' = IF a = "Hit" THEN "hit" ELSE "final"
  /\ UNCHANGED <<shoe_counts, running_count, err, backup_shoe_counts, user_input,
                 player_cards, dealer_card_val, is_first_turn, idleVars>>

Decide ==
  /\ mainpc = "decide"
  /\ actions' = ActionList(player_cards, is_first_turn, is_split_hand)
  /\ \E a \in Range(actions') :
       /\ best_action' = a
       /\ is_split_hand' = (IF a = "Split" THEN TRUE ELSE is_split_hand)
       /\ mainpc' = IF a = "Hit" THEN "hit" ELSE "final"
  /\ is_first_turn' = FALSE
  /\ UNCHANGED <<shoe_counts, running_count, err, backup_shoe_counts, user_input,
                 player_cards, dealer_card_val, idleVars>>

\* Lines 597-607: the hit prompt.  An empty input ends the loop; the card is
\* removed and joins the hand; 21 or more ends the loop.
HitPromptOf_NoStop(symbols) ==
  /\ mainpc = "hit"
  /\ \/ /\ user_input' = <<>> /\ mainpc' = "final"
        /\ UNCHANGED <<shoe_counts, running_count, err, player_cards>>
     \/ \E c \in symbols :
          LET st == RemoveTyped(Before, <<c>>)
              hand == IF st.ok THEN Append(player_cards, RANK_TO_VALUE[c]) ELSE player_cards
          IN  /\ Typed(<<c>>, "decide")
              /\ player_cards' = hand
  /\ UNCHANGED <<backup_shoe_counts, dealer_card_val, is_first_turn, is_split_hand,
                 best_action, restVars>>

\* The hit prompt answered with nothing or with one of the given symbols.
HitPromptOf(symbols) ==
  /\ mainpc = "hit"
  /\ \/ /\ user_input' = <<>> /\ mainpc' = "final"
        /\ UNCHANGED <<shoe_counts, running_count, err, player_cards>>
     \/ \E c \in symbols :
          LET st == RemoveTyped(Before, <<c>>)
              hand == IF st.ok THEN Append(player_cards, RANK_TO_VALUE[c]) ELSE player_cards
          IN  /\ Typed(<<c>>, IF hand_value(hand) >= 21 THEN "final" ELSE "decide")
              /\ player_cards' = hand
  /\ UNCHANGED <<backup_shoe_counts, dealer_card_val, is_first_turn, is_split_hand,
                 best_action, restVars>>

HitPrompt == HitPromptOf(SessionSymbols)

\* Lines 620-633: the final removals; the next hand follows.
FinalPrompt ==
  /\ mainpc = "final"
  /\ \/ ResetShoe
     \/ \E typed \in TypedStrings : Typed(typed, "top")
  /\ UNCHANGED <<backup_shoe_counts, handVars, restVars>>

\* Lines 635-639: "except ValueError: shoe_counts = backup_shoe_counts; continue".
Except_NoRestore ==
  /\ mainpc = "except"
  /\ err' = "none"
  /\ mainpc' = "top"
  /\ UNCHANGED <<shoe_counts, running_count, backup_shoe_counts, user_input, handVars,
                 restVars>>

Except ==
  /\ mainpc = "except"
  /\ shoe_counts' = backup_shoe_counts
  /\ err' = "none"
  /\ mainpc' = "top"
  /\ UNCHANGED <<running_count, backup_shoe_counts, user_input, handVars, restVars>>

\* Lines 511-512.
InitMain ==
  /\ shoe_counts = initialize_shoe_counts(NUM_DECKS)
  /\ running_count = 0 /\ last_rank = "none" /\ err = "none"
  /\ backup_shoe_counts = shoe_counts
  /\ mainpc = "top" /\ user_input = <<>>
  /\ player_cards = <<>> /\ dealer_card_val = 0
  /\ action = "none" /\ simulations = SIMULATIONS
  /\ EstIdle /\ SelIdle /\ ReplayIdle

NextMain ==
  \/ MainTop \/ DealerPrompt \/ PlayerPrompt \/ PrecalcPrompt
  \/ Decide \/ HitPrompt \/ FinalPrompt \/ Except

SpecMain == InitMain /\ [][NextMain]_vars

FullShoe == [r \in RankSet |-> 4 * NUM_DECKS]

\* The weights of the cards missing from a shoe.
RECURSIVE MissingWeight(_, _)
MissingWeight(counts, k) ==
  IF k = 0 THEN 0
  ELSE COUNTING_SYSTEM[ALL_RANKS[k]] * (4 * NUM_DECKS - counts[ALL_RANKS[k]])
         + MissingWeight(counts, k - 1)

\* C14: when a step of a hand raises ValueError, the handler leaves the shoe
\* counts equal to the counts held at the start of that iteration: the
\* snapshot is taken at the top of the loop, is left alone until the next
\* top, and the handler restores the shoe from it.
C14_Rollback ==
  [][/\ mainpc = "top" => backup_shoe_counts' = shoe_counts
     /\ mainpc # "top" => backup_shoe_counts' = backup_shoe_counts
     /\ mainpc' = "except" => err' = "ValueError"
     /\ mainpc = "except" => (shoe_counts' = backup_shoe_counts /\ mainpc' = "top")]_vars

\* C14 witness: the handler has run after a hand that had removed cards
\* before it failed: the shoe is the snapshot again, the running count still
\* shows the undone removals.
C14_Witness ==
  /\ mainpc = "top" /\ user_input # <<"0">>
  /\ shoe_counts = backup_shoe_counts
  /\ running_count # MissingWeight(shoe_counts, Len(ALL_RANKS))

\* C14, before the handler: a failed prompt left two removals applied.
C14_WitnessPartial ==
  /\ mainpc = "except" /\ err = "ValueError"
  /\ \E r \in RankSet : shoe_counts[r] <= backup_shoe_counts[r] - 2

\* C15: the session starts from 4 x NUM_DECKS cards of every rank, and in
\* every state of the session every rank count is in 0..4 x NUM_DECKS.
C15_CountsInRange ==
  /\ shoe_counts = FullShoe
  /\ [](\A r \in RankSet : shoe_counts[r] \in 0..(4 * NUM_DECKS))

\* C15 witness: a rank is exhausted, a removal of it has failed and another
\* rank is still complete.
C15_Witness ==
  /\ mainpc = "except"
  /\ shoe_counts["5"] = 0 /\ user_input = <<"5">>
  /\ shoe_counts["T"] = 4 * NUM_DECKS

\* C20: '0' at the dealer, player, pre-calculation or final prompt resets the
\* shoe to 4 x NUM_DECKS of every rank and the running count to 0, whatever
\* was removed in the hand, and the next snapshot is that full shoe.
C20_Reset ==
  [][/\ (mainpc \in {"dealer", "player", "precalc", "final"} /\ user_input' = <<"0">>) =>
          /\ shoe_counts' = FullShoe
          /\ running_count' = 0
          /\ mainpc' = "top"
     /\ mainpc = "top" => (backup_shoe_counts' = shoe_counts /\ shoe_counts' = shoe_counts)]_vars

\* C20 witness: a reset typed at the final prompt of a hand that began from
\* a shoe with cards missing.
C20_Witness ==
  /\ mainpc = "top" /\ user_input = <<"0">>
  /\ best_action # "none"
  /\ backup_shoe_counts # FullShoe
  /\ shoe_counts = FullShoe /\ running_count = 0

\* C20, the next hand: its snapshot is the full shoe after a reset typed at
\* the pre-calculation prompt.
C20_WitnessSnapshot ==
  /\ mainpc = "dealer" /\ user_input = <<"0">>
  /\ player_cards = <<>> /\ backup_shoe_counts = FullShoe

(***************************************************************************)
(* Two successive calls of monte_carlo_ev with the same arguments, the     *)
(* second fed the random choices of the first (the same random stream).    *)
(***************************************************************************)
\* One random.choice: the first call appends its choice to the stream, the
\* second call can only make the choice the stream holds next.
Choice(c) ==
  IF run = 1
  THEN /\ stream' = Append(stream, c)
       /\ UNCHANGED <<run, taken, first>>
  ELSE /\ taken < Len(stream) /\ c = stream[taken + 1]
       /\ taken' = taken + 1
       /\ UNCHANGED <<run, stream, first>>

\* The steps that call random.choice (lines 127, 241, 322, 371, 388); Double
\* Down does not call it on an empty pool, a Split sub-hand raises there.
PlayDrawChoice == PlayDraw /\ Choice(tmp_cards'[Len(tmp_cards')])

DoubleDrawChoice ==
  DoubleDraw /\ (IF local_shoe # <<>> THEN Choice(tmp_cards'[Len(tmp_cards')])
                                      ELSE UNCHANGED replayVars)

SubHandDrawChoice ==
  SubHandDraw /\ (IF local_shoe # <<>> THEN Choice(tmp_cards'[2]) ELSE UNCHANGED replayVars)

DealerDrawChoice == DealerDraw /\ Choice(dealer_cards'[Len(dealer_cards')])

\* The first call is over (returned or raised): what it handed back is kept
\* and the same call is made again.  Python gives the new call fresh locals;
\* the model's names keep their last values until the call assigns them.
SecondCall ==
  /\ run = 1 /\ mpc \in {"returned", "raised"}
  /\ first' = <<mpc, err, final_ev, checkpoint_means>>
  /\ run' = 2 /\ taken' = 0
  /\ mpc' = "call" /\ err' = "none"
  /\ UNCHANGED <<shoeVars, inVars, estVars, trialVars, dealerVars, selVars, sessVars, stream>>

\* The calls compared: <<shoe, hand, upcard, action>>, few random outcomes
\* per trial each, a Split that may raise, an unknown action.
ReplayCases ==
  {<<ShoeOf("5" :> 1 @@ "A" :> 1), <<10, 6>>, 6, "Stand">>,
   <<ShoeOf("5" :> 1 @@ "A" :> 1 @@ "T" :> 1), <<10, 6>>, 6, "Hit">>,
   <<ShoeOf("5" :> 1 @@ "A" :> 1 @@ "T" :> 1), <<10, 6>>, 6, "Double Down">>,
   <<ShoeOf("A" :> 2 @@ "T" :> 1 @@ "5" :> 1), <<11, 11>>, 6, "Split">>,
   <<ShoeOf("A" :> 2 @@ "T" :> 1 @@ "K" :> 1), <<11, 11>>, 6, "Split">>,
   <<ShoeOf("T" :> 1), <<10, 6>>, 6, "Surrender">>}

InitReplay ==
  /\ \E case \in ReplayCases :
       /\ shoe_counts = case[1] /\ player_cards = case[2]
       /\ dealer_card_val = case[3] /\ action = case[4]
  /\ simulations \in {9, 10}
  /\ ShoeIdle /\ err = "none" /\ EstIdle /\ SelIdle /\ SessIdle /\ ReplayIdle

NextReplay ==
  \/ McEnter \/ StandChunk \/ TrialChunk
  \/ HitTrial \/ PlayStop \/ HitResolve
  \/ DoubleTrial \/ DoubleResolve
  \/ SplitTrial \/ SplitResolve
  \/ DealerCall \/ DealerReturn
  \/ PlayDrawChoice \/ DoubleDrawChoice \/ SubHandDrawChoice \/ DealerDrawChoice
  \/ StandChunkEnd \/ TrialChunkEnd \/ SplitChunkEnd
  \/ LoopExit \/ McReturn
  \/ SecondCall

SpecReplay == InitReplay /\ [][NextReplay]_vars

\* C19: the second call, made with the same arguments and fed the same
\* random choices, can always make the choice the stream holds next, uses
\* the stream up, and ends as the first did: the same EV and the same
\* convergence trace, or the same error.
C19_SameResult ==
  /\ (run = 2 /\ mpc \in {"returned", "raised"}) =>
       /\ first = <<mpc, err, final_ev, checkpoint_means>>
       /\ taken = Len(stream)
  /\ (run = 2 /\ mpc = "play" /\ PlayerDraws(tmp_cards, local_shoe)) =>
       (taken < Len(stream) /\ Contains(local_shoe, stream[taken + 1]))
  /\ (run = 2 /\ mpc \in {"double", "subhand"} /\ local_shoe # <<>>) =>
       (taken < Len(stream) /\ Contains(local_shoe, stream[taken + 1]))
  /\ (run = 2 /\ mpc = "dealer" /\ DealerDraws(dealer_cards, dealer_shoe)) =>
       (taken < Len(stream) /\ Contains(dealer_shoe, stream[taken + 1]))

\* C19 witness: a second Hit estimate has returned after replaying a stream
\* of differing choices, with an EV that is not 0.
C19_Witness ==
  /\ run = 2 /\ mpc = "returned" /\ action = "Hit"
  /\ Len(stream) >= 10 /\ taken = Len(stream)
  /\ \E a, b \in 1..Len(stream) : stream[a] # stream[b]
  /\ final_ev[1] # 0 /\ Len(checkpoint_means) = 10

\* C19, an error: a second Split estimate has raised as the first did.
C19_WitnessRaised ==
  /\ run = 2 /\ mpc = "raised" /\ err = "IndexError" /\ action = "Split"
  /\ stream # <<>> /\ first[1] = "raised"

\* main, line 518: "current_remaining = sum(shoe_counts.values())".
RECURSIVE SumCounts(_, _)
SumCounts(counts, k) ==
  IF k = 0 THEN 0 ELSE counts[ALL_RANKS[k]] + SumCounts(counts, k - 1)

current_remaining == SumCounts(shoe_counts, Len(ALL_RANKS))

\* C21 as claimed, for the session loop: the divisor of the true count,
\* current_remaining / 52, printed at the top of every hand is at least 1,
\* i.e. 52 x divisor >= 52.
C21_DivisorAtLeastOne ==
  mainpc = "dealer" => current_remaining >= 52

\* C22: within one hand Double Down and Split are evaluated at the first
\* decision only: the decision clears the first-turn flag, the flag stays
\* cleared while the hand is decided, and a decision taken with the flag
\* cleared, as every decision after a hit card is, evaluates Stand and Hit only.
C22_FirstDecisionOnly ==
  [][/\ mainpc = "decide" =>
          /\ is_first_turn' = FALSE
          /\ ~is_first_turn => actions' = <<"Stand", "Hit">>
          /\ Len(player_cards) > 2 => ~is_first_turn
     /\ (mainpc \in {"decide", "hit"} /\ ~is_first_turn) => ~is_first_turn']_vars

\* C22 witness: the second decision of a hand, taken on a pair plus a hit
\* card, evaluated Stand and Hit only although the first evaluated all four.
C22_Witness ==
  /\ mainpc \in {"hit", "final"}
  /\ Len(player_cards) = 3 /\ player_cards[1] = player_cards[2]
  /\ ~is_first_turn /\ ~is_split_hand
  /\ actions = <<"Stand", "Hit">>

\* C23: for Stand, Hit and Double Down with a trial count that is a multiple
\* of 10, the sum starts at 0, every trial adds its payoff to the chunk's sum,
\* every chunk adds its sum to the total and appends total / trials so far to
\* the trace, nothing else touches them, and the EV returned is
\* RTP x total / trials, which is RTP x the 10th trace entry.
C23_TraceAndEV ==
  [][(action \in {"Stand", "Hit", "Double Down"} /\ simulations % 10 = 0) =>
       /\ mpc = "call" => (ev' = <<0, 1>> /\ checkpoint_means' = <<>>)
       /\ (mpc = "chunk" /\ mpc' = "trial") => ev_chunk' = 0
       /\ mpc = "resolve" =>
            ev_chunk' = ev_chunk + (IF action = "Hit" THEN 1 ELSE 2) * Rule(p_total, d_total)
       /\ (mpc = "sims" /\ mpc' = "chunk") =>
            ev_chunk' = RuleSum(hand_value(player_cards), dealer_totals)
       /\ IF mpc \in {"sims", "trial"} /\ mpc' = "chunk"
          THEN /\ ev' = <<ev[1] + ev_chunk', 1>>
               /\ checkpoint_means' =
                    Append(checkpoint_means,
                           <<ev[1] + ev_chunk', (i + 1) * (simulations \div 10)>>)
               /\ i' = i + 1
          ELSE mpc # "call" => (ev' = ev /\ checkpoint_means' = checkpoint_means)
       /\ mpc' = "returned" =>
            /\ Len(checkpoint_means) = 10
            /\ final_ev'[1] * (RTP_DEN * simulations) = (RTP_NUM * ev[1]) * final_ev'[2]
            /\ final_ev'[1] * (RTP_DEN * checkpoint_means[10][2])
                 = (RTP_NUM * checkpoint_means[10][1]) * final_ev'[2]]_vars

\* C23 witness: a Stand estimate of 10 trials returned a trace whose means
\* differ from entry to entry and an EV that is not 0.
C23_Witness ==
  /\ mpc = "returned" /\ action = "Stand" /\ simulations = 10
  /\ Len(checkpoint_means) = 10
  /\ checkpoint_means[10] = <<ev[1], 10>>
  /\ checkpoint_means[1][1] * 10 # checkpoint_means[10][1]
  /\ final_ev[1] # 0

\* C23, two trials a chunk: a Double Down estimate of 20 trials returned.
C23_WitnessTwenty ==
  /\ mpc = "returned" /\ action = "Double Down" /\ simulations = 20
  /\ checkpoint_means[3][2] = 6 /\ checkpoint_means[10][1] # 0

\* C24: in every Hit trial whose pool is not empty the played-out hand holds
\* at least one card more than the player's hand, whatever the starting total,
\* and every draw is made from a total below 17.
C24_HitDrawsFirst ==
  [][/\ (/\ mpc = "play" /\ mpc' = "played"
         /\ TrialPool(shoe_counts, player_cards, dealer_card_val) # <<>>)
          => Len(tmp_cards') > Len(player_cards)
     /\ (mpc = "play" /\ tmp_cards' # tmp_cards) => hand_value(tmp_cards) < PLAYER_STAND]_vars

\* C25: in every state of the session loop the running count is the sum of
\* the COUNTING_SYSTEM weights of the cards missing from the shoe, also after
\* a reset and after the rollback of a failed input.
C25_CountMatchesShoe == running_count = MissingWeight(shoe_counts, Len(ALL_RANKS))

(***************************************************************************)
(* The decision loop of one hand (lines 585-618), entered after the three  *)
(* prompts of the first hand of a session: upcard and two player cards     *)
(* removed from the full shoe, nothing removed before the calculation.     *)
(***************************************************************************)
LoopRanks == {"5", "T", "A"}

InitLoop ==
  /\ \E d \in LoopRanks : \E p \in [1..2 -> LoopRanks] :
       LET st == RemoveTyped([counts |-> initialize_shoe_counts(NUM_DECKS), rc |-> 0,
                              ok |-> TRUE], <<d, p[1], p[2]>>)
       IN  /\ shoe_counts = st.counts
           /\ running_count = st.rc
           /\ dealer_card_val = RANK_TO_VALUE[d]
           /\ player_cards = <<RANK_TO_VALUE[p[1]], RANK_TO_VALUE[p[2]]>>
  /\ backup_shoe_counts = initialize_shoe_counts(NUM_DECKS)
  /\ mainpc = "decide" /\ user_input = <<>>
  /\ last_rank = "none" /\ err = "none"
  /\ action = "none" /\ simulations = SIMULATIONS
  /\ EstIdle /\ SelIdle /\ ReplayIdle

HitPromptLoop == HitPromptOf(LoopRanks \cup {"X"})

NextLoop == Decide \/ HitPromptLoop

\* input() returns and get_player_action returns: the loop body goes on.
FairSpecLoop == InitLoop /\ [][NextLoop]_vars /\ WF_vars(NextLoop)

\* C26: the decision loop of a hand ends.  It is left when the action is not
\* Hit, when no hit card is entered, when the total reaches 21 and when the
\* removal fails; an applied hit takes one card off the shoe and raises the
\* all-Aces-as-1 sum of the hand; the hits applied never outnumber the cards
\* the shoe held at the start of the hand.
C26_LoopTerminates ==
  /\ [][/\ mainpc = "decide" =>
             /\ mainpc' = (IF best_action' = "Hit" THEN "hit" ELSE "final")
             /\ player_cards' = player_cards /\ shoe_counts' = shoe_counts
        /\ mainpc = "hit" =>
             /\ user_input' = <<>> => (mainpc' = "final" /\ player_cards' = player_cards)
             /\ err' = "ValueError" => (mainpc' = "except" /\ player_cards' = player_cards)
             /\ mainpc' = "decide" => player_cards' # player_cards
             /\ player_cards' # player_cards =>
                  /\ Len(player_cards') = Len(player_cards) + 1
                  /\ SumCounts(shoe_counts', Len(ALL_RANKS)) = current_remaining - 1
                  /\ HardSum(player_cards') > HardSum(player_cards)
                  /\ mainpc' = (IF hand_value(player_cards') >= 21 THEN "final" ELSE "decide")]_vars
  /\ [](mainpc \in {"decide", "hit"} =>
          /\ HardSum(player_cards) < 21
          /\ current_remaining + (Len(player_cards) - 2)
               = SumCounts(backup_shoe_counts, Len(ALL_RANKS)) - 3
          /\ Len(player_cards) - 2 <= SumCounts(backup_shoe_counts, Len(ALL_RANKS)))
  /\ (mainpc \in {"decide", "hit"}) ~> (mainpc \in {"final", "except"})

\* C26 witness: the loop ended after two hits on A, A; the second hit lowered
\* the hand's value (17 to 12) and raised its all-Aces-as-1 sum.
C26_Witness ==
  /\ mainpc = "final" /\ Len(player_cards) = 4
  /\ player_cards[1] = 11 /\ player_cards[2] = 11
  /\ hand_value(player_cards) < hand_value(SubSeq(player_cards, 1, 3))
  /\ HardSum(player_cards) > HardSum(SubSeq(player_cards, 1, 3))

\* C26, failed removal: the loop was left through the except clause after a
\* hit had been applied.
C26_WitnessFailed ==
  /\ mainpc = "except" /\ err = "ValueError" /\ Len(player_cards) >= 3

\* Lists of dealer totals: every single total a playout can return or a
\* caller can pass, and every list of up to three of a few of them.
DealerTotalLists ==
  {<<d>> : d \in 0..30} \cup UNION {[1..k -> {11, 16, 17, 21, 22}] : k \in 0..3}

\* C27: for the total and the soft flag monte_carlo_ev has computed at its
\* entry from one hand of two or more cards, process_results_for_stand_like
\* returns for every list of dealer totals what it returns with
\* is_soft = False, and every chunk payoff of Stand is that value.
C27_SoftFlagInert ==
  /\ []((mpc = "chunk" /\ i = 0 /\ Len(player_cards) >= 2) =>
          \A dl \in DealerTotalLists :
             process_results_for_stand_like(player_total, dl, is_soft_player)
               = process_results_for_stand_like(player_total, dl, FALSE))
  /\ [][(mpc = "sims" /\ mpc' # "sims" /\ Len(player_cards) >= 2) =>
          ev_chunk' = process_results_for_stand_like(player_total, dealer_totals, FALSE)]_vars

\* C27 witness: a Stand chunk on the soft hand A, A (total 12, flag set) has
\* been paid.
C27_Witness ==
  /\ action = "Stand" /\ mpc = "chunk" /\ i = 1
  /\ player_cards = <<11, 11>> /\ player_total = 12 /\ is_soft_player
  /\ ev_chunk # 0

\* C28: the total simulate_dealer_hand_once returns never exceeds 26: every
\* draw is made from a total of 16 or less, and a draw that leaves the total
\* above 21 has added at most 10 to it (an Ace that would bust counts 1).
C28_DealerAtMost26 ==
  /\ [](/\ mpc = "resolve" => d_total <= 26
        /\ \A k \in 1..Len(dealer_totals) : dealer_totals[k] <= 26)
  /\ [][(mpc = "dealer" /\ dealer_cards' # dealer_cards) =>
          /\ hand_value(dealer_cards) <= 16
          /\ hand_value(dealer_cards') > 21 =>
               hand_value(dealer_cards') <= hand_value(dealer_cards) + 10]_vars

\* C28 witness: the dealer drew a ten-value card on 16 and returned 26.
C28_Witness ==
  /\ mpc = "resolve" /\ d_total = 26
  /\ hand_value(SubSeq(dealer_cards, 1, Len(dealer_cards) - 1)) = 16

\* C28, the Ace: drawn on 16 it is counted as 1 and the dealer returned 17.
C28_WitnessAce ==
  /\ mpc = "resolve" /\ d_total = 17
  /\ dealer_cards[Len(dealer_cards)] = 11
  /\ hand_value(SubSeq(dealer_cards, 1, Len(dealer_cards) - 1)) = 16

\* C29: with a trial count of 0..9 each of the four actions ends in a
\* ZeroDivisionError: no trial is run and no EV is handed back, Stand, Hit
\* and Double Down raise at the first checkpoint, Split raises after its ten
\* empty chunks, the call cannot stop anywhere else, and the caller's
\* shoe_counts is never changed.
C29_TooFewTrials ==
  /\ []((action \in KnownActions /\ simulations \in 0..9) =>
          /\ mpc \notin {"scale", "returned"}
          /\ mpc \notin {"play", "played", "double", "subhand", "dealer", "resolve"}
          /\ final_ev = <<0, 1>>
          /\ mpc = "raised" => err = "ZeroDivisionError"
          /\ mpc = "raised" \/ ENABLED NextMC)
  /\ [][(action \in KnownActions /\ simulations \in 0..9) =>
          /\ shoe_counts' = shoe_counts
          /\ (action # "Split" /\ mpc \in {"sims", "trial"}) => (mpc' = "raised" /\ i = 0)
          /\ (action = "Split" /\ mpc = "chunk" /\ i >= 10) => mpc' = "raised"
          /\ mpc' = "raised" => err' = "ZeroDivisionError"]_vars

\* C29 witness: Split with 9 trials raised after ten empty chunks.
C29_Witness ==
  /\ mpc = "raised" /\ err = "ZeroDivisionError"
  /\ action = "Split" /\ simulations = 9 /\ i = 10
  /\ player_cards = <<11, 11>>

\* C29, no trials at all: Stand with 0 trials raised at the first checkpoint.
C29_WitnessStand ==
  /\ mpc = "raised" /\ err = "ZeroDivisionError"
  /\ action = "Stand" /\ simulations = 0 /\ i = 0 /\ checkpoint_means = <<>>

(***************************************************************************)
(* The variant 2025-01-07-calcs-acehandlingnew.py.  Its shoe, hand_value,  *)
(* prompts and hit loop read as the ones above; its get_player_action has  *)
(* no is_split_hand and its main calls it without is_first_turn, which     *)
(* then takes its default True on every turn.                              *)
(***************************************************************************)
\* Lines 305-309 of the variant.
ActionListVariant(p_cards, first_turn) ==
  <<"Stand", "Hit">>
    \o (IF first_turn
        THEN <<"Double Down">>
               \o (IF Len(p_cards) = 2 /\ p_cards[1] = p_cards[2] THEN <<"Split">> ELSE <<>>)
        ELSE <<>>)

\* Lines 441-443 and 453-454 of the variant:
\* "best_action = get_player_action(player_cards, dealer_card_val, shoe_counts)".
DecideVariant ==
  /\ mainpc = "decide"
  /\ actions' = ActionListVariant(player_cards, TRUE)
  /\ \E a \in Range(actions') :
       /\ best_action' = a
       /\ mainpc' = IF a = "Hit" THEN "hit" ELSE "final"
  /\ UNCHANGED <<shoe_counts, running_count, err, backup_shoe_counts, user_input,
                 player_cards, dealer_card_val, is_first_turn, is_split_hand, idleVars>>

NextLoopVariant == DecideVariant \/ HitPromptLoop

SpecLoopVariant == InitLoop /\ [][NextLoopVariant]_vars

\* C30 as claimed: across the decision loop of the variant, Double Down is
\* evaluated only for a hand of exactly two cards and Split only for a
\* two-card pair.
C30_TwoCardsOnly ==
  [][mainpc = "decide" =>
       /\ Contains(actions', "Double Down") => Len(player_cards) = 2
       /\ Contains(actions', "Split") =>
            (Len(player_cards) = 2 /\ player_cards[1] = player_cards[2])]_vars
====
